---- MODULE Spec2Model ----
(***************************************************************************)
(* Adaptive interview flow engine and interruption handling of the         *)
(* AI-Interview-Assistant repository.                                      *)
(*                                                                         *)
(*   SpecFlow          the difficulty controller (updateFlowState) driven  *)
(*                     from initializeFlowState by arbitrary analyses      *)
(*   SpecInterruption  one interruption-aware message handler fed with     *)
(*                     voice-transport messages                            *)
(*   SpecSession       one interview session: the AdaptiveVapiHandler      *)
(*                     latch, the next-question route, the generation      *)
(*                     service and the persisted flow state                *)
(*   SpecAnalyze       analyzeUserResponse applied once                    *)
(*   SpecRoundTrip     one session driven by sequential calls of the       *)
(*                     initialize-flow and next-question routes            *)
(*   SpecContinue      shouldContinueInterview applied once                *)
(*   SpecKeywords      updateFlowState with arbitrary keyword lists        *)
(*   SpecMetrics       InterruptionHandler.recordInterruption called with  *)
(*                     arbitrary delays                                    *)
(*   SpecAdvance       updateFlowState applied round after round, each     *)
(*                     round recording its argument and its result         *)
(*   SpecAgent         the Agent component handling the events of the      *)
(*                     voice transport                                     *)
(***************************************************************************)
EXTENDS Integers, Sequences, FiniteSets, TLC

VARIABLES
    \* ---- difficulty controller (src/unnamed/part_002)
    flowState,          \* the AdaptiveFlowState threaded through updateFlowState
    \* ---- interruption-aware message handler (src/unnamed/part_000)
    now,                \* Date.now() at the message being handled
    aiSpeechStartTime,  \* closure variable of the message handler
    metrics,            \* InterruptionHandler.metrics
    interruptionTimes,  \* InterruptionHandler.interruptionTimes
    calls,              \* how often each callback of the handler was invoked
    fed,                \* the messages handled so far, with their timestamps
    \* ---- interview session (admin.action.ts, part_010, part_011, part_002)
    db,                 \* adaptive_flow_states/<sessionId>: a FlowState or NoDoc
    req,                \* the next-question requests being served, by id
    client,             \* the AdaptiveVapiHandler fields
    issued,             \* number of next-question requests sent so far
    initOutcome,        \* response of POST initialize-flow
    served,             \* how many generateNextQuestion calls returned / failed
    \* ---- one call of a function of part_002, its arguments and its result
    call,
    \* ---- the Agent component (src/unnamed/part_015)
    agent               \* its React state and the closure variable of its effect

flowVars == <<flowState>>
intVars  == <<now, aiSpeechStartTime, metrics, interruptionTimes, calls, fed>>
sessVars == <<db, req, client, issued, initOutcome, served>>
callVars == <<call>>
agentVars == <<agent>>
vars     == <<flowState, now, aiSpeechStartTime, metrics, interruptionTimes,
              calls, fed, db, req, client, issued, initOutcome, served, call,
              agent>>

(***************************************************************************)
(* Bounds of the model.                                                    *)
(***************************************************************************)
MaxRounds == 3          \* updateFlowState calls per behaviour of SpecFlow
MaxMessages == 3        \* messages fed to the interruption-aware handler
MaxDt == 1              \* milliseconds between two messages: 0..MaxDt
CallStartTime == 1000   \* Date.now() when the handler is created
MaxRequests == 2        \* next-question requests sent in one behaviour

(***************************************************************************)
(* Program constants.                                                      *)
(***************************************************************************)
MinDifficulty      == 1     \* Math.max(1, ...)
MaxDifficulty      == 10    \* Math.min(10, ...)
maxDeviation       == 3
PassScore          == 7     \* overallScore >= 7
FailScore          == 4     \* overallScore <= 4
CorrectStreak      == 3     \* consecutiveCorrect >= 3
IncorrectStreak    == 2     \* consecutiveIncorrect >= 2
NeutralScore       == 5     \* every score of the default analysis
DefaultTotalQuestions == 10

(***************************************************************************)
(* JavaScript numbers.  Difficulty values are integers or NaN (the result  *)
(* of arithmetic on a field the analysis does not carry); NaN is encoded   *)
(* as an integer far outside every reachable difficulty.                   *)
(***************************************************************************)
NaN == 0 - 1000

IsNaN(x) == x = NaN

\* Math.min / Math.max: NaN if either argument is NaN
MathMin(a, b) == IF IsNaN(a) \/ IsNaN(b) THEN NaN ELSE IF a <= b THEN a ELSE b

MathMax(a, b) == IF IsNaN(a) \/ IsNaN(b) THEN NaN ELSE IF a >= b THEN a ELSE b

JsAdd(a, b) == IF IsNaN(a) \/ IsNaN(b) THEN NaN ELSE a + b

\* Pairs <<currentDifficulty, suggestedNextDifficulty>> for which the IEEE-754
\* double 0.7 * c + 0.3 * s falls just below the exact value n + 0.5, so that
\* Math.round gives n and not n + 1 (tabulated for c in -2..13, s in -12..23).
IeeeBelowHalf ==
    { <<3, -2>>, <<3, 18>>, <<6, -9>>, <<6, 1>>, <<6, 11>>, <<7, -8>>,
      <<7, 2>>, <<8, -7>>, <<11, -4>>, <<12, -3>>, <<12, 7>>, <<12, 17>> }

\* Math.round(0.7 * c + 0.3 * s): round half up, on doubles
BlendExact(c, s) == (7 * c + 3 * s + 5) \div 10

Blend(c, s) ==
    IF IsNaN(c) \/ IsNaN(s) THEN NaN
    ELSE IF <<c, s>> \in IeeeBelowHalf THEN BlendExact(c, s) - 1
    ELSE BlendExact(c, s)

(***************************************************************************)
(* Data of the flow engine.                                                *)
(***************************************************************************)
SessionId == "s1"
Role      == "frontend"
TechStack == <<"react">>

NoAnalysis == [reasoning |-> "undefined"]    \* lastAnalysis not set

AnalysisFields ==
    {"mvpKeywords", "confidence", "technicalAccuracy", "completeness",
     "overallScore", "suggestedNextDifficulty", "reasoning"}

\* A ResponseAnalysis carrying every field
Analysis(kw, score, sugg) ==
    [mvpKeywords |-> kw, confidence |-> score, technicalAccuracy |-> score,
     completeness |-> score, overallScore |-> score,
     suggestedNextDifficulty |-> sugg, reasoning |-> "assessment"]

Has(a, f) == f \in DOMAIN a

\* analysis.suggestedNextDifficulty in arithmetic: undefined gives NaN
SuggestedOf(a) ==
    IF Has(a, "suggestedNextDifficulty") THEN a.suggestedNextDifficulty ELSE NaN

\* analysis.overallScore >= 7 / <= 4: comparisons with undefined are false
IsPass(a) == Has(a, "overallScore") /\ a.overallScore >= PassScore

IsFail(a) == Has(a, "overallScore") /\ a.overallScore <= FailScore

Includes(seq, x) == \E i \in 1..Len(seq) : seq[i] = x

NewKeywordsUnfiltered(existing, kws) == kws

\* analysis.mvpKeywords.filter(keyword => !updatedState.mvpKeywords.includes(keyword))
NewKeywords(existing, kws) == SelectSeq(kws, LAMBDA k : ~Includes(existing, k))

(***************************************************************************)
(* initializeFlowState                                                     *)
(***************************************************************************)
initializeFlowState(sessionId, role, techStack, baseDifficulty, totalQuestions) ==
    [sessionId            |-> sessionId,
     currentDifficulty    |-> baseDifficulty,
     baseDifficulty       |-> baseDifficulty,
     consecutiveCorrect   |-> 0,
     consecutiveIncorrect |-> 0,
     totalQuestions       |-> totalQuestions,
     questionsAsked       |-> 0,
     mvpKeywords          |-> <<>>,
     role                 |-> role,
     techStack            |-> techStack,
     questionHistory      |-> <<>>,
     lastAnalysis         |-> NoAnalysis]

(***************************************************************************)
(* updateFlowState                                                         *)
(***************************************************************************)
CountersAfterNoReset(s, a) ==
    IF IsPass(a)
    THEN [correct |-> s.consecutiveCorrect + 1, incorrect |-> s.consecutiveIncorrect]
    ELSE IF IsFail(a)
    THEN [correct |-> s.consecutiveCorrect, incorrect |-> s.consecutiveIncorrect + 1]
    ELSE [correct |-> s.consecutiveCorrect, incorrect |-> s.consecutiveIncorrect]

\* the streak counters after classifying the round
CountersAfter(s, a) ==
    IF IsPass(a)
    THEN [correct |-> s.consecutiveCorrect + 1, incorrect |-> 0]
    ELSE IF IsFail(a)
    THEN [correct |-> 0, incorrect |-> s.consecutiveIncorrect + 1]
    ELSE [correct |-> s.consecutiveCorrect, incorrect |-> s.consecutiveIncorrect]

ClampUnbounded(base, d) == d

\* Math.max(base - maxDeviation, Math.min(base + maxDeviation, newDifficulty))
ClampToBase(base, d) ==
    MathMax(base - maxDeviation, MathMin(base + maxDeviation, d))

\* updateFlowState throws a TypeError when analysis.mvpKeywords is undefined
updateFlowStateThrows(a) == ~Has(a, "mvpKeywords")

RaiseDueLate(c) == c.correct > CorrectStreak

\* updatedState.consecutiveCorrect >= 3
RaiseDue(c) == c.correct >= CorrectStreak

LowerDueLate(c) == c.incorrect > IncorrectStreak

\* updatedState.consecutiveIncorrect >= 2
LowerDue(c) == c.incorrect >= IncorrectStreak

updateFlowState(s, a) ==
    LET keywords == s.mvpKeywords \o NewKeywords(s.mvpKeywords, a.mvpKeywords)
        c        == CountersAfter(s, a)
        cur      == s.currentDifficulty
        raise    == RaiseDue(c)
        lower    == ~raise /\ LowerDue(c)
        newDifficulty ==
            IF raise THEN MathMin(MaxDifficulty, JsAdd(cur, 1))
            ELSE IF lower THEN MathMax(MinDifficulty, JsAdd(cur, -1))
            ELSE Blend(cur, SuggestedOf(a))
    IN  [s EXCEPT
            !.mvpKeywords          = keywords,
            !.consecutiveCorrect   = IF raise THEN 0 ELSE c.correct,
            !.consecutiveIncorrect = IF lower THEN 0 ELSE c.incorrect,
            !.currentDifficulty    = ClampToBase(s.baseDifficulty, newDifficulty),
            !.questionsAsked       = s.questionsAsked + 1,
            !.lastAnalysis         = a]

shouldContinueInterviewInclusive(s) == s.questionsAsked <= s.totalQuestions

updateFlowStateCallInPlace(s, a) ==
    [flowState |-> updateFlowState(s, a), returned |-> updateFlowState(s, a)]

\* The two objects after a call updateFlowState(flowState, analysis): the
\* argument, which is copied ({ ...flowState }) before anything is assigned,
\* and the returned updatedState.
updateFlowStateCall(s, a) ==
    [flowState |-> s, returned |-> updateFlowState(s, a)]

\* flowState.questionsAsked < flowState.totalQuestions
shouldContinueInterview(s) == s.questionsAsked < s.totalQuestions

(***************************************************************************)
(* The text-generation service and the parsing of its output.              *)
(*                                                                         *)
(* A generateText call either throws (exception, timeout) or returns a     *)
(* text.  A text answering a JSON prompt is                                *)
(*   [kind |-> "garbage"]               no JSON at all                     *)
(*   [kind |-> "fenced", value |-> v]   JSON wrapped in a ```json fence    *)
(*   [kind |-> "json", value |-> v]     JSON, possibly padded with blanks  *)
(* JSON.parse(text.trim()) succeeds on the last kind only: the code strips *)
(* blanks and nothing else.                                                *)
(***************************************************************************)
Threw == [threw |-> TRUE]

Returned(v) == [threw |-> FALSE, value |-> v]

JsonParses(text) == text.kind = "json"

DefaultAnalysisFixedSuggestion(currentDifficulty) ==
    [mvpKeywords |-> <<>>, confidence |-> NeutralScore,
     technicalAccuracy |-> NeutralScore, completeness |-> NeutralScore,
     overallScore |-> NeutralScore,
     suggestedNextDifficulty |-> NeutralScore,
     reasoning |-> "Unable to analyze response properly"]

\* the object of the catch branch of analyzeUserResponse
DefaultAnalysis(currentDifficulty) ==
    [mvpKeywords |-> <<>>, confidence |-> NeutralScore,
     technicalAccuracy |-> NeutralScore, completeness |-> NeutralScore,
     overallScore |-> NeutralScore,
     suggestedNextDifficulty |-> currentDifficulty,
     reasoning |-> "Unable to analyze response properly"]

DefaultAnalysisMidpoint(currentDifficulty) ==
    [DefaultAnalysis(currentDifficulty) EXCEPT !.suggestedNextDifficulty = NeutralScore]

analyzeUserResponseMidpoint(generated, currentDifficulty) ==
    IF generated.threw THEN Threw
    ELSE IF JsonParses(generated.value) THEN Returned(generated.value.value)
    ELSE Returned(DefaultAnalysisMidpoint(currentDifficulty))

\* analyzeUserResponse, given the outcome of its generateText call: the call is
\* outside the try block, so its exception leaves the function; the parsed
\* value is returned as it is.
analyzeUserResponse(generated, currentDifficulty) ==
    IF generated.threw THEN Threw
    ELSE IF JsonParses(generated.value) THEN Returned(generated.value.value)
    ELSE Returned(DefaultAnalysis(currentDifficulty))

\* the catch branch of generateInitialQuestions
FallbackQuestions == << <<"r">>, <<"t">>, <<"l">> >>

\* generateInitialQuestions, given the outcome of its generateText call; a
\* parsed JSON value is [isArray |-> BOOLEAN, items |-> sequence]
generateInitialQuestions(generated) ==
    IF generated.threw THEN Threw
    ELSE IF JsonParses(generated.value)
    THEN Returned(IF generated.value.value.isArray
                  THEN generated.value.value.items ELSE <<>>)
    ELSE Returned(FallbackQuestions)

\* Texts are sequences of characters.
Blank == " "

Quotes == { "\"", "'" }

RECURSIVE TrimLeft(_)
TrimLeft(t) == IF t # <<>> /\ Head(t) = Blank THEN TrimLeft(Tail(t)) ELSE t

RECURSIVE TrimRight(_)
TrimRight(t) ==
    IF t # <<>> /\ t[Len(t)] = Blank THEN TrimRight(SubSeq(t, 1, Len(t) - 1)) ELSE t

\* String.prototype.trim
Trim(t) == TrimRight(TrimLeft(t))

\* .replace(/^["']|["']$/g, ''): one quote off the start, then one off the
\* end of what is left
Unquote(t) ==
    LET a == IF t # <<>> /\ Head(t) \in Quotes THEN Tail(t) ELSE t
    IN  IF a # <<>> /\ a[Len(a)] \in Quotes THEN SubSeq(a, 1, Len(a) - 1) ELSE a

\* nextQuestion.trim().replace(/^["']|["']$/g, '')
QuestionOf(text) == Unquote(Trim(text))

\* new QuestionRecord pushed by generateNextQuestion; the timestamp is the
\* logical time `at` of the push
QuestionRecord(question, at, difficulty) ==
    [question |-> question, timestamp |-> at, difficulty |-> difficulty,
     category |-> "adaptive"]

\* generateInterviewSummary: the values the report is rendered from
generateInterviewSummary(s) ==
    [questionsAsked |-> s.questionsAsked, totalQuestions |-> s.totalQuestions,
     difficultyProgression |->
        [i \in 1..Len(s.questionHistory) |-> s.questionHistory[i].difficulty],
     finalDifficulty |-> s.currentDifficulty, baseDifficulty |-> s.baseDifficulty,
     keyTopics |-> s.mvpKeywords, streak |-> s.consecutiveCorrect]

(***************************************************************************)
(* SpecFlow: initializeFlowState, then updateFlowState with any analyses   *)
(* whose scores and suggestions are in 1..10.                              *)
(***************************************************************************)
Difficulties == MinDifficulty..MaxDifficulty

FlowKeywordLists == { <<>>, <<"hooks">> }

FlowAnalyses ==
    { Analysis(kw, score, sugg) :
        kw \in FlowKeywordLists, score \in Difficulties, sugg \in Difficulties }

IdleInterruption ==
    /\ now = 0
    /\ aiSpeechStartTime = 0
    /\ metrics = <<>>
    /\ interruptionTimes = <<>>
    /\ calls = <<>>
    /\ fed = <<>>

IdleSession ==
    /\ db = <<>>
    /\ req = <<>>
    /\ client = <<>>
    /\ issued = 0
    /\ initOutcome = <<>>
    /\ served = <<>>

IdleFlow == flowState = <<>>

IdleCall == call = <<>>

IdleAgent == agent = <<>>

InitFlow ==
    /\ \E base \in Difficulties :
          flowState = initializeFlowState(SessionId, Role, TechStack, base,
                                          DefaultTotalQuestions)
    /\ IdleInterruption
    /\ IdleSession
    /\ IdleCall
    /\ IdleAgent

Advance ==
    /\ flowState.questionsAsked < MaxRounds
    /\ \E a \in FlowAnalyses : flowState' = updateFlowState(flowState, a)
    /\ UNCHANGED <<intVars, sessVars, callVars, agentVars>>

NextFlow == Advance

SpecFlow == InitFlow /\ [][NextFlow]_vars

(***************************************************************************)
(* C1: after every updateFlowState call from an initialized state (base    *)
(* difficulty in 1..10, scores and suggestions in 1..10) the current       *)
(* difficulty is within 3 of the base difficulty and within 1..10.         *)
(***************************************************************************)
C1_DifficultyBounds ==
    flowState.questionsAsked >= 1 =>
        /\ flowState.baseDifficulty - 3 <= flowState.currentDifficulty
        /\ flowState.currentDifficulty <= flowState.baseDifficulty + 3
        /\ 1 <= flowState.currentDifficulty
        /\ flowState.currentDifficulty <= 10

\* the blend has pushed the difficulty up to the edge of the allowed band
C1_Witness ==
    /\ flowState.questionsAsked >= 2
    /\ flowState.currentDifficulty = flowState.baseDifficulty + 3
    /\ flowState.lastAnalysis.suggestedNextDifficulty = 10

(***************************************************************************)
(* C2: after every updateFlowState call at most one of consecutiveCorrect  *)
(* and consecutiveIncorrect is nonzero.                                    *)
(***************************************************************************)
C2_OneStreak ==
    flowState.questionsAsked >= 1 =>
        (flowState.consecutiveCorrect = 0 \/ flowState.consecutiveIncorrect = 0)

\* a failed round directly after passed rounds: the correct streak was zeroed
C2_Witness ==
    /\ flowState.questionsAsked >= 2
    /\ flowState.consecutiveIncorrect = 1
    /\ flowState.consecutiveCorrect = 0
    /\ flowState.lastAnalysis.overallScore <= 4
    /\ flowState.currentDifficulty > flowState.baseDifficulty

(***************************************************************************)
(* C14: from a fresh state with baseDifficulty = 5 and currentDifficulty = *)
(* 5, three consecutive rounds with overallScore >= 7 yield                *)
(* currentDifficulty = 6 and consecutiveCorrect = 0, for every             *)
(* suggestedNextDifficulty in 1..10 carried by the three analyses.         *)
(* (Two rounds into a behaviour, consecutiveCorrect = 2 says that both     *)
(* rounds passed; the formula is about the third round.)                   *)
(***************************************************************************)
C14_ThreePassesGiveSix ==
    [][ (/\ flowState.baseDifficulty = 5
         /\ flowState.questionsAsked = 2
         /\ flowState.consecutiveCorrect = 2
         /\ flowState'.questionsAsked = 3
         /\ flowState'.lastAnalysis.overallScore >= 7)
        => /\ flowState'.currentDifficulty = 6
           /\ flowState'.consecutiveCorrect = 0 ]_vars

(***************************************************************************)
(* C14 as amended: the first two passed rounds blend the difficulty with   *)
(* the suggestions, which leaves it anywhere in 3..8; the third passed     *)
(* round resets consecutiveCorrect to 0 and raises the difficulty the      *)
(* second round left by one, capped at baseDifficulty + 3 = 8.  The result *)
(* is in 4..8, and it is 6 when the first two rounds left the difficulty   *)
(* at 5.                                                                   *)
(***************************************************************************)
C14_ThirdPassRaisesByOne ==
    [][ (/\ flowState.baseDifficulty = 5
         /\ flowState.questionsAsked = 2
         /\ flowState.consecutiveCorrect = 2
         /\ flowState'.questionsAsked = 3
         /\ flowState'.lastAnalysis.overallScore >= 7)
        => /\ flowState'.consecutiveCorrect = 0
           /\ flowState.currentDifficulty \in 3..8
           /\ flowState'.currentDifficulty =
                IF flowState.currentDifficulty < 8
                THEN flowState.currentDifficulty + 1 ELSE 8
           /\ flowState.currentDifficulty = 5 => flowState'.currentDifficulty = 6 ]_vars

\* three passed rounds (a passed round leaves consecutiveCorrect at 0 only by
\* the reset at three) whose suggestions took the difficulty from 5 to 8
C14_Witness ==
    /\ flowState.baseDifficulty = 5
    /\ flowState.questionsAsked = 3
    /\ flowState.lastAnalysis.overallScore >= 7
    /\ flowState.consecutiveCorrect = 0
    /\ flowState.currentDifficulty = 8

(***************************************************************************)
(* C15: from a state with currentDifficulty = 5 (baseDifficulty = 5, both  *)
(* counters 0), two consecutive rounds with overallScore <= 4 yield        *)
(* currentDifficulty = 4, for every suggestedNextDifficulty in 1..10       *)
(* carried by the two analyses.  (One round into a behaviour,              *)
(* consecutiveIncorrect = 1 says that the round failed; the formula is     *)
(* about the second round.)                                                *)
(***************************************************************************)
C15_TwoFailsGiveFour ==
    [][ (/\ flowState.baseDifficulty = 5
         /\ flowState.questionsAsked = 1
         /\ flowState.consecutiveIncorrect = 1
         /\ flowState'.questionsAsked = 2
         /\ flowState'.lastAnalysis.overallScore <= 4)
        => flowState'.currentDifficulty = 4 ]_vars

(***************************************************************************)
(* C15 as amended: the first failed round blends the difficulty with its   *)
(* suggestion, which leaves it anywhere in 4..7; the second failed round   *)
(* resets consecutiveIncorrect to 0 and lowers the difficulty the first    *)
(* round left by one.  The result is in 3..6, and it is 4 when the first   *)
(* round left the difficulty at 5.                                         *)
(***************************************************************************)
C15_SecondFailLowersByOne ==
    [][ (/\ flowState.baseDifficulty = 5
         /\ flowState.questionsAsked = 1
         /\ flowState.consecutiveIncorrect = 1
         /\ flowState'.questionsAsked = 2
         /\ flowState'.lastAnalysis.overallScore <= 4)
        => /\ flowState'.consecutiveIncorrect = 0
           /\ flowState.currentDifficulty \in 4..7
           /\ flowState'.currentDifficulty = flowState.currentDifficulty - 1
           /\ flowState.currentDifficulty = 5 => flowState'.currentDifficulty = 4 ]_vars

\* two failed rounds (a failed round leaves consecutiveIncorrect at 0 only by
\* the reset at two) whose first suggestion took the difficulty from 5 to 7
C15_Witness ==
    /\ flowState.baseDifficulty = 5
    /\ flowState.questionsAsked = 2
    /\ flowState.lastAnalysis.overallScore <= 4
    /\ flowState.consecutiveIncorrect = 0
    /\ flowState.currentDifficulty = 6

(***************************************************************************)
(* InterruptionHandler and createInterruptionAwareMessageHandler           *)
(***************************************************************************)
NoTime == 0     \* null; the handler tests aiSpeechStartTime for truthiness

\* Infinity, the initial fastestInterruption: above every delay of the model
Infinity == 2 * 1000000000

\* a quotient of two integers (averageInterruptionDelay is a double)
Quotient(num, den) == [num |-> num, den |-> den]

createEmptyMetrics ==
    [totalInterruptions       |-> 0,
     averageInterruptionDelay |-> Quotient(0, 1),
     fastestInterruption      |-> Infinity,
     slowestInterruption      |-> 0,
     successfulCancellations  |-> 0,
     failedCancellations      |-> 0,
     lastInterruptionTime     |-> NoTime]

RECURSIVE SumSeq(_)
SumSeq(seq) == IF seq = <<>> THEN 0 ELSE Head(seq) + SumSeq(Tail(seq))

recordInterruptionNoSubtract(h, aiStart, userSpeechDetectedTime) ==
    LET delay == userSpeechDetectedTime
        times == Append(h.interruptionTimes, delay)
    IN  [h EXCEPT
            !.interruptionTimes = times,
            !.metrics = [h.metrics EXCEPT
                !.totalInterruptions = @ + 1,
                !.lastInterruptionTime = userSpeechDetectedTime,
                !.fastestInterruption = IF delay < @ THEN delay ELSE @,
                !.slowestInterruption = IF delay > @ THEN delay ELSE @,
                !.averageInterruptionDelay = Quotient(SumSeq(times), Len(times))]]

recordInterruptionStaleAverage(h, aiStart, userSpeechDetectedTime) ==
    LET delay == userSpeechDetectedTime - aiStart
        times == Append(h.interruptionTimes, delay)
    IN  [h EXCEPT
            !.interruptionTimes = times,
            !.metrics = [h.metrics EXCEPT
                !.totalInterruptions = @ + 1,
                !.lastInterruptionTime = userSpeechDetectedTime,
                !.fastestInterruption = IF delay < @ THEN delay ELSE @,
                !.slowestInterruption = IF delay > @ THEN delay ELSE @,
                !.averageInterruptionDelay =
                    Quotient(SumSeq(h.interruptionTimes), Len(h.interruptionTimes))]]

\* InterruptionHandler.recordInterruption, on the handler state h
recordInterruption(h, aiStart, userSpeechDetectedTime) ==
    LET delay == userSpeechDetectedTime - aiStart
        times == Append(h.interruptionTimes, delay)
    IN  [h EXCEPT
            !.interruptionTimes = times,
            !.metrics = [h.metrics EXCEPT
                !.totalInterruptions = @ + 1,
                !.lastInterruptionTime = userSpeechDetectedTime,
                !.fastestInterruption = IF delay < @ THEN delay ELSE @,
                !.slowestInterruption = IF delay > @ THEN delay ELSE @,
                !.averageInterruptionDelay = Quotient(SumSeq(times), Len(times))]]

\* one callback invocation
Called(h, cb) == [h EXCEPT !.calls[cb] = @ + 1]

\* a voice-transport message; "-" stands for a field the message does not carry
Message(type, role, transcriptType, status) ==
    [type |-> type, role |-> role, transcriptType |-> transcriptType,
     status |-> status]

SpeechStartAssistant == Message("speech-start", "assistant", "-", "-")
SpeechEndAssistant   == Message("speech-end", "assistant", "-", "-")
PartialUser          == Message("transcript", "user", "partial", "-")
FinalUser            == Message("transcript", "user", "final", "-")
PartialAssistant     == Message("transcript", "assistant", "partial", "-")
UserInterrupted      == Message("user-interrupted", "-", "-", "-")
VoiceInput           == Message("voice-input", "-", "-", "-")
UserSpeechStarted    == Message("speech-update", "user", "-", "started")
UserSpeechStopped    == Message("speech-update", "user", "-", "stopped")

Messages ==
    { SpeechStartAssistant, SpeechEndAssistant, PartialUser, FinalUser,
      PartialAssistant, UserInterrupted, VoiceInput, UserSpeechStarted,
      UserSpeechStopped }

\* the interruption-class events of the turn-taking state machine
InterruptionClass == { PartialUser, UserInterrupted, VoiceInput, UserSpeechStarted }

\* The closure returned by createInterruptionAwareMessageHandler, applied to
\* `message` at Date.now() = timestamp.  h holds the closure variable, the
\* InterruptionHandler and the callback counters.  The six tests of the source
\* run in order; each stage takes the state the previous one left.
messageHandler(h, message, timestamp) ==
    LET h1 == IF message.type = "speech-start" /\ message.role = "assistant"
              THEN Called([h EXCEPT !.aiSpeechStartTime = timestamp], "onSpeechStart")
              ELSE h
        h2 == IF message.type = "speech-end" /\ message.role = "assistant"
              THEN Called([h1 EXCEPT !.aiSpeechStartTime = NoTime], "onSpeechEnd")
              ELSE h1
        h3 == IF /\ message.type = "transcript" /\ message.role = "user"
                 /\ message.transcriptType = "partial"
                 /\ h2.aiSpeechStartTime # NoTime
              THEN Called(recordInterruption(h2, h2.aiSpeechStartTime, timestamp),
                          "onInterruption")
              ELSE h2
        h4 == IF message.type = "user-interrupted"
              THEN Called(IF h3.aiSpeechStartTime # NoTime
                          THEN recordInterruption(h3, h3.aiSpeechStartTime, timestamp)
                          ELSE h3,
                          "onInterruption")
              ELSE h3
        h5 == IF message.type = "voice-input" /\ h4.aiSpeechStartTime # NoTime
              THEN Called(recordInterruption(h4, h4.aiSpeechStartTime, timestamp),
                          "onInterruption")
              ELSE h4
        h6 == IF /\ message.type = "speech-update" /\ message.role = "user"
                 /\ message.status = "started"
                 /\ h5.aiSpeechStartTime # NoTime
              THEN Called(recordInterruption(h5, h5.aiSpeechStartTime, timestamp),
                          "onInterruption")
              ELSE h5
    IN  h6

(***************************************************************************)
(* SpecInterruption: one InterruptionHandler and one message handler       *)
(* created from it, fed with messages at non-decreasing times.             *)
(***************************************************************************)
HandlerState ==
    [aiSpeechStartTime |-> aiSpeechStartTime, metrics |-> metrics,
     interruptionTimes |-> interruptionTimes, calls |-> calls]

InitInterruption ==
    /\ now = CallStartTime
    /\ aiSpeechStartTime = NoTime
    /\ metrics = createEmptyMetrics
    /\ interruptionTimes = <<>>
    /\ calls = [onInterruption |-> 0, onSpeechStart |-> 0, onSpeechEnd |-> 0]
    /\ fed = <<>>
    /\ IdleFlow
    /\ IdleSession
    /\ IdleCall
    /\ IdleAgent

Feed ==
    /\ Len(fed) < MaxMessages
    /\ \E message \in Messages, dt \in 0..MaxDt :
          LET timestamp == now + dt
              h == messageHandler(HandlerState, message, timestamp)
          IN  /\ now' = timestamp
              /\ aiSpeechStartTime' = h.aiSpeechStartTime
              /\ metrics' = h.metrics
              /\ interruptionTimes' = h.interruptionTimes
              /\ calls' = h.calls
              /\ fed' = Append(fed, [message |-> message, at |-> timestamp])
    /\ UNCHANGED <<flowVars, sessVars, callVars, agentVars>>

NextInterruption == Feed

SpecInterruption == InitInterruption /\ [][NextInterruption]_vars

(***************************************************************************)
(* C9: speech-start(assistant) and then, dt ms later, one user partial     *)
(* transcript record exactly one interruption, with delay dt, and signal   *)
(* the interruption callback once.                                         *)
(***************************************************************************)
C9_OneInterruptionWithDelay ==
    (/\ Len(fed) = 2
     /\ fed[1].message = SpeechStartAssistant
     /\ fed[2].message = PartialUser)
    => /\ metrics.totalInterruptions = 1
       /\ interruptionTimes = << fed[2].at - fed[1].at >>
       /\ calls.onInterruption = 1

C9_Witness ==
    /\ Len(fed) = 2
    /\ fed[1].message = SpeechStartAssistant
    /\ fed[2].message = PartialUser
    /\ fed[2].at > fed[1].at
    /\ metrics.totalInterruptions = 1

(***************************************************************************)
(* C10: an interruption-class event handled while aiSpeechStartTime is     *)
(* unset records no delay, leaves totalInterruptions unchanged and does    *)
(* not signal the interruption callback.                                   *)
(***************************************************************************)
C10_NoOpWhileUnset ==
    [][ (/\ aiSpeechStartTime = NoTime
         /\ Len(fed') = Len(fed) + 1
         /\ fed'[Len(fed')].message \in InterruptionClass)
        => /\ interruptionTimes' = interruptionTimes
           /\ metrics'.totalInterruptions = metrics.totalInterruptions
           /\ calls'.onInterruption = calls.onInterruption ]_vars

(***************************************************************************)
(* SpecSession: one interview session.                                     *)
(*                                                                         *)
(*   client   the AdaptiveVapiHandler of the browser (admin.action.ts)     *)
(*   req      the POST next-question requests it has sent, each served by  *)
(*            the route (part_010) and generateNextQuestion (part_002);    *)
(*            every await of the route is one step, so the steps of two    *)
(*            requests interleave                                          *)
(*   db       the document adaptive_flow_states/<sessionId>                *)
(***************************************************************************)
NoDoc == [exists |-> FALSE]

Exists(doc) == Has(doc, "sessionId")

None == [none |-> TRUE]

NoText == <<>>      \* the empty string, and an unset currentQuestion

Requests == 1..MaxRequests

\* base difficulties and totalQuestions sent to POST initialize-flow; a
\* totalQuestions of 0 stands for an absent one (totalQuestions || 10)
SessionBases == {9}

TotalInputs == {0, 1}

\* what generateText returns to analyzeUserResponse
PassAnalysis == Analysis(<<"hooks">>, 8, 9)

\* the same without its keywords
NoKeywordsAnalysis ==
    [f \in AnalysisFields \ {"mvpKeywords"} |-> PassAnalysis[f]]

SessionAnalysisTexts ==
    { [kind |-> "garbage"],
      [kind |-> "json", value |-> PassAnalysis],
      [kind |-> "json", value |-> NoKeywordsAnalysis] }

SessionAnalysisOutcomes ==
    {Threw} \cup { Returned(t) : t \in SessionAnalysisTexts }

\* what generateText returns for the next question
QuestionTexts ==
    { <<"q">>, <<Blank, "\"", "q", "\"", Blank>>, <<"\"", "\"">> }

QuestionOutcomes == {Threw} \cup { Returned(t) : t \in QuestionTexts }

\* what generateText returns to generateInitialQuestions
InitialTexts ==
    { [kind |-> "garbage"],
      [kind |-> "json",
       value |-> [isArray |-> TRUE, items |-> << <<"a">>, <<"b">>, <<"c">> >>]],
      [kind |-> "json", value |-> [isArray |-> TRUE, items |-> << <<"a">> >>]],
      [kind |-> "json", value |-> [isArray |-> FALSE, items |-> <<>>]] }

InitialOutcomes == {Threw} \cup { Returned(t) : t \in InitialTexts }

\* NextResponse.json bodies of the next-question route; shouldContinue is
\* "true", "false" or, when the body has no such field, "undefined"
Response(status, success, shouldContinue, nextQuestion, state, summary) ==
    [status |-> status, success |-> success, shouldContinue |-> shouldContinue,
     nextQuestion |-> nextQuestion, flowState |-> state, summary |-> summary]

ErrorResponse(status) == Response(status, FALSE, "undefined", NoText, None, None)

IdleRequest == [pc |-> "idle"]

\* a request at the start of the route
NewRequest(userResponse, currentQuestion) ==
    [pc              |-> "read",
     userResponse    |-> userResponse,
     currentQuestion |-> currentQuestion,
     stored          |-> None,      \* the document when generateNextQuestion began
     flowState       |-> None,      \* request.flowState
     analysis        |-> None,
     updatedState    |-> None,
     question        |-> NoText,
     raisedIn        |-> "none",    \* operation a generateText failure escaped from
     response        |-> None]

InFlight(r) == req[r].pc \notin {"idle", "done"}

Serving(r) == req[r].pc \notin {"idle", "responded", "done"}

InitSession ==
    /\ db = NoDoc
    /\ req = [r \in Requests |-> IdleRequest]
    /\ client = [isProcessingAdaptiveFlow |-> FALSE,
                 pendingUserResponse      |-> "",
                 currentQuestion          |-> NoText,
                 questionIndex            |-> 0,
                 adaptiveFlowState        |-> None,
                 questionsAnnounced       |-> 0,
                 completionsAnnounced     |-> 0]
    /\ issued = 0
    /\ initOutcome = [status |-> 0]
    /\ served = [returned |-> 0, failed |-> 0]
    /\ IdleFlow
    /\ IdleInterruption
    /\ IdleCall
    /\ IdleAgent

\* POST initialize-flow on the document `doc`.  body carries baseDifficulty
\* (absent: undefined) and totalQuestions (0 or absent: totalQuestions || 10);
\* sessionId, role and techStack are always sent.  initializeFlowState persists
\* the state, then generateInitialQuestions runs; an exception of either
\* reaches the catch of the route.  The result is the document afterwards and
\* the response.
initializeFlowRoute(doc, body, writeOk, generated) ==
    IF ~Has(body, "baseDifficulty")
    THEN [db |-> doc, response |-> [status |-> 400]]
    ELSE LET state == initializeFlowState(SessionId, Role, TechStack,
                          body.baseDifficulty,
                          IF body.totalQuestions = 0 THEN DefaultTotalQuestions
                          ELSE body.totalQuestions)
             questions == generateInitialQuestions(generated)
         IN  IF ~writeOk
             THEN [db |-> doc, response |-> [status |-> 500]]
             ELSE [db |-> state,
                   response |->
                     IF questions.threw
                     THEN [status |-> 500, raisedIn |-> "generateInitialQuestions"]
                     ELSE [status |-> 200, flowState |-> state,
                           initialQuestions |-> questions.value]]

InitializeFlow ==
    /\ initOutcome.status = 0
    /\ \E base \in SessionBases, total \in TotalInputs, writeOk \in BOOLEAN,
          generated \in InitialOutcomes :
          LET result == initializeFlowRoute(db,
                            [baseDifficulty |-> base, totalQuestions |-> total],
                            writeOk, generated)
          IN  /\ db' = result.db
              /\ initOutcome' = result.response
    /\ UNCHANGED <<req, client, issued, served, flowVars, intVars, callVars, agentVars>>

\* AdaptiveVapiHandler.updateCurrentQuestion with the first initial question
UpdateCurrentQuestion ==
    /\ initOutcome.status = 200
    /\ initOutcome.initialQuestions # <<>>
    /\ client.currentQuestion = NoText
    /\ issued = 0
    /\ client' = [client EXCEPT !.currentQuestion = initOutcome.initialQuestions[1]]
    /\ UNCHANGED <<db, req, issued, initOutcome, served, flowVars, intVars, callVars, agentVars>>

\* the guard at the head of processAdaptiveFlow
ProcessGuard(c) ==
    \/ c.isProcessingAdaptiveFlow
    \/ c.pendingUserResponse = ""
    \/ c.currentQuestion = NoText

\* AdaptiveVapiHandler.handleMessage for a final user transcript, up to the
\* fetch of processAdaptiveFlow
FinalTranscript ==
    /\ issued < MaxRequests
    /\ \E transcript \in {"answer", ""} :
          LET c == IF client.isProcessingAdaptiveFlow THEN client
                   ELSE [client EXCEPT !.pendingUserResponse = transcript]
          IN  IF client.isProcessingAdaptiveFlow \/ ProcessGuard(c)
              THEN /\ client' = c
                   /\ UNCHANGED <<req, issued>>
              ELSE /\ client' = [c EXCEPT !.isProcessingAdaptiveFlow = TRUE]
                   /\ issued' = issued + 1
                   /\ req' = [req EXCEPT ![issued + 1] =
                                NewRequest(c.pendingUserResponse, c.currentQuestion)]
    /\ UNCHANGED <<db, initOutcome, served, flowVars, intVars, callVars, agentVars>>

\* AdaptiveVapiHandler.handleMessage for speech-end of the assistant
SpeechEnd ==
    /\ client' = [client EXCEPT !.isProcessingAdaptiveFlow = FALSE]
    /\ UNCHANGED <<db, req, issued, initOutcome, served, flowVars, intVars, callVars, agentVars>>

\* the request leaves the route with `response`
Respond(r, response) ==
    req' = [req EXCEPT ![r].pc = "responded", ![r].response = response]

\* an exception inside generateNextQuestion reaches the catch of the route
Fail(r, raisedIn) ==
    /\ req' = [req EXCEPT ![r].pc = "responded",
                          ![r].response = ErrorResponse(500),
                          ![r].raisedIn = raisedIn]
    /\ served' = [served EXCEPT !.failed = @ + 1]

\* route: parameter check, getFlowState (null when the read fails or no
\* document exists), shouldContinueInterview
ServeRead(r) ==
    /\ req[r].pc = "read"
    /\ \E readOk \in BOOLEAN :
          LET doc == IF readOk THEN db ELSE NoDoc
          IN  IF req[r].userResponse = "" \/ req[r].currentQuestion = NoText
              THEN Respond(r, ErrorResponse(400))
              ELSE IF ~Exists(doc)
              THEN Respond(r, ErrorResponse(404))
              ELSE IF ~shouldContinueInterview(doc)
              THEN Respond(r, Response(200, TRUE, "false", NoText, None,
                                       generateInterviewSummary(doc)))
              ELSE req' = [req EXCEPT ![r].pc = "analyze",
                                      ![r].flowState = doc,
                                      ![r].stored = db]
    /\ UNCHANGED <<db, client, issued, initOutcome, served, flowVars, intVars, callVars, agentVars>>

\* generateNextQuestion: analyzeUserResponse, then updateFlowState
ServeAnalyze(r) ==
    /\ req[r].pc = "analyze"
    /\ \E generated \in SessionAnalysisOutcomes :
          LET a == analyzeUserResponse(generated, req[r].flowState.currentDifficulty)
          IN  IF a.threw
              THEN /\ Fail(r, "analyzeUserResponse")
              ELSE IF updateFlowStateThrows(a.value)
              THEN /\ req' = [req EXCEPT ![r].pc = "responded",
                                         ![r].response = ErrorResponse(500),
                                         ![r].analysis = a.value]
                   /\ served' = [served EXCEPT !.failed = @ + 1]
              ELSE /\ req' = [req EXCEPT
                            ![r].pc = "write1",
                            ![r].analysis = a.value,
                            ![r].updatedState = updateFlowState(req[r].flowState, a.value)]
                   /\ served' = served
    /\ UNCHANGED <<db, client, issued, initOutcome, flowVars, intVars, callVars, agentVars>>

\* generateNextQuestion: "Save updated state to database"
ServeWrite1(r) ==
    /\ req[r].pc = "write1"
    /\ \E writeOk \in BOOLEAN :
          IF writeOk
          THEN /\ db' = req[r].updatedState
               /\ req' = [req EXCEPT ![r].pc = "generate"]
               /\ served' = served
          ELSE /\ db' = db
               /\ Fail(r, "none")
    /\ UNCHANGED <<client, issued, initOutcome, flowVars, intVars, callVars, agentVars>>

\* generateNextQuestion: generateText for the question, then the push onto
\* updatedState.questionHistory, which is the array of request.flowState too
\* (updatedState is a shallow copy)
ServeGenerate(r) ==
    /\ req[r].pc = "generate"
    /\ \E generated \in QuestionOutcomes :
          IF generated.threw
          THEN Fail(r, "generateNextQuestion")
          ELSE LET question == QuestionOf(generated.value)
                   record == QuestionRecord(question, r,
                                            req[r].updatedState.currentDifficulty)
                   history == Append(req[r].updatedState.questionHistory, record)
               IN  /\ req' = [req EXCEPT
                            ![r].pc = "write2",
                            ![r].question = question,
                            ![r].updatedState.questionHistory = history,
                            ![r].flowState.questionHistory = history]
                   /\ served' = served
    /\ UNCHANGED <<db, client, issued, initOutcome, flowVars, intVars, callVars, agentVars>>

\* generateNextQuestion: "Save final state", then return question
ServeWrite2(r) ==
    /\ req[r].pc = "write2"
    /\ \E writeOk \in BOOLEAN :
          IF writeOk
          THEN /\ db' = req[r].updatedState
               /\ req' = [req EXCEPT ![r].pc = "reread"]
               /\ served' = [served EXCEPT !.returned = @ + 1]
          ELSE /\ db' = db
               /\ Fail(r, "none")
    /\ UNCHANGED <<client, issued, initOutcome, flowVars, intVars, callVars, agentVars>>

\* route: "Get updated flow state" and the success response, whose
\* shouldContinue is the literal true
ServeReread(r) ==
    /\ req[r].pc = "reread"
    /\ \E readOk \in BOOLEAN :
          LET updatedFlowState == IF readOk /\ Exists(db) THEN db ELSE None
          IN  Respond(r, Response(200, TRUE, "true", req[r].question,
                                  updatedFlowState, None))
    /\ UNCHANGED <<db, client, issued, initOutcome, served, flowVars, intVars, callVars, agentVars>>

\* processAdaptiveFlow from the resolution of its fetch to the end of its
\* finally block; a fetch or response.json() that rejects goes to the catch
Receive(r) ==
    /\ req[r].pc = "responded"
    /\ \E fetched \in BOOLEAN :
          LET result == req[r].response
          IN  client' =
                IF ~fetched
                THEN [client EXCEPT !.isProcessingAdaptiveFlow = FALSE]
                ELSE IF result.success /\ result.shouldContinue = "true"
                THEN [client EXCEPT
                         !.currentQuestion = result.nextQuestion,
                         !.adaptiveFlowState = result.flowState,
                         !.questionIndex = @ + 1,
                         !.questionsAnnounced = @ + 1,
                         !.pendingUserResponse = "",
                         !.isProcessingAdaptiveFlow = FALSE]
                ELSE IF result.shouldContinue # "true"
                THEN [client EXCEPT
                         !.completionsAnnounced = @ + 1,
                         !.isProcessingAdaptiveFlow = FALSE]
                ELSE [client EXCEPT !.isProcessingAdaptiveFlow = FALSE]
    /\ req' = [req EXCEPT ![r] = [pc |-> "done"]]
    /\ UNCHANGED <<db, issued, initOutcome, served, flowVars, intVars, callVars, agentVars>>

NextSession ==
    \/ InitializeFlow
    \/ UpdateCurrentQuestion
    \/ FinalTranscript
    \/ SpeechEnd
    \/ \E r \in Requests : ServeRead(r)
    \/ \E r \in Requests : ServeAnalyze(r)
    \/ \E r \in Requests : ServeWrite1(r)
    \/ \E r \in Requests : ServeGenerate(r)
    \/ \E r \in Requests : ServeWrite2(r)
    \/ \E r \in Requests : ServeReread(r)
    \/ \E r \in Requests : Receive(r)

SpecSession == InitSession /\ [][NextSession]_vars

(***************************************************************************)
(* SpecAnalyze: analyzeUserResponse applied once to a current difficulty   *)
(* and an outcome of its generateText call.                                *)
(***************************************************************************)
\* JSON objects the service may answer with: complete analyses, and the
\* complete analysis PassAnalysis with one field left out
CompleteAnalyses ==
    { Analysis(kw, score, sugg) :
        kw \in FlowKeywordLists, score \in {FailScore, PassScore + 1},
        sugg \in {MinDifficulty, MaxDifficulty - 1} }

PartialAnalyses ==
    { [f \in AnalysisFields \ {missing} |-> PassAnalysis[f]] :
        missing \in AnalysisFields }

AnalysisTexts ==
    {[kind |-> "garbage"]}
    \cup { [kind |-> k, value |-> v] :
             k \in {"fenced", "json"}, v \in CompleteAnalyses \cup PartialAnalyses }

AnalysisOutcomes == {Threw} \cup { Returned(t) : t \in AnalysisTexts }

InitAnalyze ==
    /\ \E generated \in AnalysisOutcomes, currentDifficulty \in Difficulties :
          call = [op |-> "analyzeUserResponse", generated |-> generated,
                  currentDifficulty |-> currentDifficulty,
                  done |-> FALSE, result |-> None]
    /\ IdleFlow
    /\ IdleInterruption
    /\ IdleSession
    /\ IdleAgent

ApplyAnalyze ==
    /\ ~call.done
    /\ call' = [call EXCEPT
                  !.done = TRUE,
                  !.result = analyzeUserResponse(call.generated, call.currentDifficulty)]
    /\ UNCHANGED <<flowVars, intVars, sessVars, agentVars>>

NextAnalyze == ApplyAnalyze

SpecAnalyze == InitAnalyze /\ [][NextAnalyze]_vars

(***************************************************************************)
(* C3: for the session at most one next-question request is in flight at   *)
(* any time, whatever the order of the voice-transport messages.           *)
(***************************************************************************)
C3_OneInFlight == Cardinality({ r \in Requests : InFlight(r) }) <= 1

(***************************************************************************)
(* C4: when the next-question requests of a session interleave, no update  *)
(* is lost: once all of them have been served (none failed), the persisted *)
(* questionsAsked equals the number of completed rounds.                   *)
(***************************************************************************)
C4_NoLostUpdate ==
    (/\ Exists(db)
     /\ served.failed = 0
     /\ \A r \in Requests : ~Serving(r))
    => db.questionsAsked = served.returned

(***************************************************************************)
(* C5: a generateNextQuestion call that fails leaves the persisted state   *)
(* equal to the state stored before the call.                              *)
(***************************************************************************)
C5_FailureKeepsStoredState ==
    (/\ issued = 1
     /\ req[1].pc = "responded"
     /\ req[1].response.status = 500)
    => db = req[1].stored

(***************************************************************************)
(* C6: a failure of the generateText call inside analyzeUserResponse,      *)
(* generateNextQuestion or generateInitialQuestions is caught inside the   *)
(* operation, which returns a fallback value: the failure never leaves it. *)
(***************************************************************************)
C6_GenerationFailureCaught ==
    /\ ~Has(initOutcome, "raisedIn")
    /\ \A r \in Requests : Has(req[r], "raisedIn") => req[r].raisedIn = "none"

(***************************************************************************)
(* C7: when the generated text cannot be parsed as JSON, analyzeUserResponse*)
(* does not throw and returns the fallback analysis: the four scores 5, no *)
(* keywords, suggestedNextDifficulty equal to the currentDifficulty        *)
(* argument, reasoning "Unable to analyze response properly".              *)
(***************************************************************************)
C7_UnparseableGivesFallback ==
    (/\ call.done
     /\ ~call.generated.threw
     /\ call.generated.value.kind \in {"garbage", "fenced"})
    => /\ ~call.result.threw
       /\ call.result.value =
            [mvpKeywords |-> <<>>, confidence |-> 5, technicalAccuracy |-> 5,
             completeness |-> 5, overallScore |-> 5,
             suggestedNextDifficulty |-> call.currentDifficulty,
             reasoning |-> "Unable to analyze response properly"]

\* a fenced JSON answer at a difficulty other than the midpoint
C7_Witness ==
    /\ call.done
    /\ ~call.generated.threw
    /\ call.generated.value.kind = "fenced"
    /\ call.currentDifficulty = 8
    /\ ~call.result.threw
    /\ call.result.value.suggestedNextDifficulty = 8

(***************************************************************************)
(* C8: every analysis handed to updateFlowState carries all the required   *)
(* fields (parsed JSON lacking one is replaced by the fallback analysis).  *)
(***************************************************************************)
C8_AnalysisComplete ==
    \A r \in Requests :
        (Has(req[r], "analysis") /\ req[r].analysis # None)
        => AnalysisFields \subseteq DOMAIN req[r].analysis

(***************************************************************************)
(* SpecRoundTrip: one session driven by sequential calls.  POST            *)
(* initialize-flow, then POST next-question called again and again, each   *)
(* call served to its end before the next is sent, each passing the        *)
(* question the previous one returned as currentQuestion.                  *)
(***************************************************************************)
MaxCalls == 3       \* next-question calls in one behaviour
MaxTotal == 4       \* largest totalQuestions sent to initialize-flow

\* generateNextQuestion run to its end on the document `doc`; o holds the
\* outcomes of its two generateText calls and of its two db.set calls.  The
\* result is the document afterwards and the returned question, or threw.
generateNextQuestion(doc, request, o) ==
    LET analysis == analyzeUserResponse(o.analysis, request.flowState.currentDifficulty)
    IN  IF analysis.threw \/ updateFlowStateThrows(analysis.value)
        THEN [db |-> doc, threw |-> TRUE]
        ELSE
        LET updatedState == updateFlowState(request.flowState, analysis.value)
        IN  IF ~o.write1Ok THEN [db |-> doc, threw |-> TRUE]
            ELSE IF o.question.threw THEN [db |-> updatedState, threw |-> TRUE]
            ELSE
            LET question == QuestionOf(o.question.value)
                record == QuestionRecord(question, updatedState.questionsAsked,
                                         updatedState.currentDifficulty)
                final == [updatedState EXCEPT
                            !.questionHistory = Append(@, record)]
            IN  IF ~o.write2Ok THEN [db |-> updatedState, threw |-> TRUE]
                ELSE [db |-> final, threw |-> FALSE, value |-> question]

\* POST next-question served to its end on the document `doc`
nextQuestionRoute(doc, userResponse, currentQuestion, o) ==
    LET stored == IF o.readOk THEN doc ELSE NoDoc
    IN  IF userResponse = "" \/ currentQuestion = NoText
        THEN [db |-> doc, response |-> ErrorResponse(400)]
        ELSE IF ~Exists(stored)
        THEN [db |-> doc, response |-> ErrorResponse(404)]
        ELSE IF ~shouldContinueInterview(stored)
        THEN [db |-> doc,
              response |-> Response(200, TRUE, "false", NoText, None,
                                    generateInterviewSummary(stored))]
        ELSE
        LET g == generateNextQuestion(doc,
                     [userResponse |-> userResponse,
                      currentQuestion |-> currentQuestion,
                      flowState |-> stored], o)
        IN  IF g.threw
            THEN [db |-> g.db, response |-> ErrorResponse(500)]
            ELSE [db |-> g.db,
                  response |-> Response(200, TRUE, "true", g.value,
                                        IF o.rereadOk THEN g.db ELSE None, None)]

\* request bodies of POST initialize-flow: baseDifficulty in and out of 1..10,
\* or absent; totalQuestions 1..MaxTotal, or 0 for an absent one
RoundTripBases == {0, 5, 11}

RoundTripBodies ==
    { [baseDifficulty |-> base, totalQuestions |-> total] :
        base \in RoundTripBases, total \in 0..MaxTotal }
    \cup { [totalQuestions |-> MaxTotal] }

RoundTripAnalysisOutcomes ==
    { Threw, Returned([kind |-> "garbage"]),
      Returned([kind |-> "json", value |-> PassAnalysis]) }

RoundTripQuestionOutcomes == { Threw, Returned(<<"q">>) }

\* the outcomes of one next-question call: either every collaborator works,
\* or exactly one of them fails
AllWell ==
    [readOk |-> TRUE, analysis |-> Returned([kind |-> "json", value |-> PassAnalysis]),
     write1Ok |-> TRUE, question |-> Returned(<<"q">>), write2Ok |-> TRUE,
     rereadOk |-> TRUE]

RoundTripOutcomes ==
    { [AllWell EXCEPT !.analysis = a] : a \in RoundTripAnalysisOutcomes }
    \cup { [AllWell EXCEPT !.question = q] : q \in RoundTripQuestionOutcomes }
    \cup { [AllWell EXCEPT !.readOk = FALSE], [AllWell EXCEPT !.write1Ok = FALSE],
           [AllWell EXCEPT !.write2Ok = FALSE], [AllWell EXCEPT !.rereadOk = FALSE] }

InitRoundTrip ==
    /\ db = NoDoc
    /\ initOutcome = [status |-> 0]
    /\ call = [op |-> "roundTrip", body |-> None, generated |-> None,
               currentQuestion |-> NoText,
               calls |-> 0, failed |-> 0, last |-> None]
    /\ req = <<>>
    /\ client = <<>>
    /\ issued = 0
    /\ served = <<>>
    /\ IdleFlow
    /\ IdleInterruption
    /\ IdleAgent

\* POST initialize-flow; the caller keeps the first initial question as the
\* question being answered
Initialize ==
    /\ initOutcome.status = 0
    /\ \E body \in RoundTripBodies, writeOk \in BOOLEAN, generated \in InitialOutcomes :
          LET result == initializeFlowRoute(db, body, writeOk, generated)
          IN  /\ db' = result.db
              /\ initOutcome' = result.response
              /\ call' = [call EXCEPT
                    !.body = body,
                    !.generated = generated,
                    !.currentQuestion =
                        IF /\ result.response.status = 200
                           /\ result.response.initialQuestions # <<>>
                        THEN result.response.initialQuestions[1] ELSE NoText]
    /\ UNCHANGED <<req, client, issued, served, flowVars, intVars, agentVars>>

\* one POST next-question, served to its end; the caller takes the returned
\* question as the next currentQuestion
NextQuestion ==
    /\ initOutcome.status = 200
    /\ call.calls < MaxCalls
    /\ \E o \in RoundTripOutcomes :
          LET result == nextQuestionRoute(db, "answer", call.currentQuestion, o)
              response == result.response
          IN  /\ db' = result.db
              /\ call' = [call EXCEPT
                    !.calls = @ + 1,
                    !.failed = IF response.status = 200 THEN @ ELSE @ + 1,
                    !.currentQuestion =
                        IF response.success /\ response.shouldContinue = "true"
                        THEN response.nextQuestion ELSE @,
                    !.last = response]
    /\ UNCHANGED <<req, client, issued, initOutcome, served, flowVars, intVars, agentVars>>

NextRoundTrip == Initialize \/ NextQuestion

SpecRoundTrip == InitRoundTrip /\ [][NextRoundTrip]_vars

(***************************************************************************)
(* C11: after initialize with totalQuestions = N and k initial questions   *)
(* returned, N - k next-question calls in sequence, all of them served,    *)
(* end with shouldContinue = false for the session: the last response says *)
(* so, or at least the stored state does.                                  *)
(***************************************************************************)
C11_RoundTripEnds ==
    (/\ initOutcome.status = 200
     /\ initOutcome.flowState.baseDifficulty \in Difficulties
     /\ call.failed = 0
     /\ call.calls >= 1
     /\ call.calls = initOutcome.flowState.totalQuestions
                       - Len(initOutcome.initialQuestions))
    => \/ call.last.shouldContinue = "false"
       \/ ~shouldContinueInterview(db)

(***************************************************************************)
(* C12: in a session driven by sequential calls, after every               *)
(* generateNextQuestion that completed successfully the persisted state    *)
(* has questionHistory.length = questionsAsked.                            *)
(***************************************************************************)
C12_HistoryMatchesAsked ==
    (/\ initOutcome.status = 200
     /\ initOutcome.flowState.baseDifficulty \in Difficulties
     /\ call.calls >= 1
     /\ call.last.status = 200
     /\ call.last.shouldContinue = "true")
    => Len(db.questionHistory) = db.questionsAsked

(***************************************************************************)
(* SpecContinue: shouldContinueInterview applied once to a flow state with *)
(* any questionsAsked and totalQuestions in 0..MaxCount.                   *)
(***************************************************************************)
MaxCount == 10      \* largest questionsAsked and totalQuestions

InitContinue ==
    /\ \E asked \in 0..MaxCount, total \in 0..MaxCount :
          call = [op |-> "shouldContinueInterview",
                  flowState |->
                    [initializeFlowState(SessionId, Role, TechStack,
                                         NeutralScore, total)
                       EXCEPT !.questionsAsked = asked],
                  done |-> FALSE, result |-> None]
    /\ IdleFlow
    /\ IdleInterruption
    /\ IdleSession
    /\ IdleAgent

ApplyContinue ==
    /\ ~call.done
    /\ call' = [call EXCEPT !.done = TRUE,
                            !.result = shouldContinueInterview(call.flowState)]
    /\ UNCHANGED <<flowVars, intVars, sessVars, agentVars>>

NextContinue == ApplyContinue

SpecContinue == InitContinue /\ [][NextContinue]_vars

(***************************************************************************)
(* C13: shouldContinueInterview returns false exactly when questionsAsked  *)
(* >= totalQuestions, and true otherwise, for every pair of non-negative   *)
(* questionsAsked and totalQuestions.                                      *)
(***************************************************************************)
C13_ContinueIffBelowTotal ==
    call.done =>
        /\ call.flowState.questionsAsked >= call.flowState.totalQuestions
              => call.result = FALSE
        /\ call.flowState.questionsAsked < call.flowState.totalQuestions
              => call.result = TRUE

\* the last question has just been asked
C13_Witness ==
    /\ call.done
    /\ call.flowState.totalQuestions > 0
    /\ call.flowState.questionsAsked = call.flowState.totalQuestions
    /\ call.result = FALSE

(***************************************************************************)
(* SpecKeywords: initializeFlowState, then updateFlowState with analyses   *)
(* whose mvpKeywords are arbitrary lists of up to MaxKeywords strings;     *)
(* `call` keeps the arguments of the last updateFlowState call.            *)
(***************************************************************************)
MaxKeywords == 2        \* longest mvpKeywords list of one analysis
MaxKeywordRounds == 3   \* updateFlowState calls per behaviour

Keywords == { "hooks", "state" }

RECURSIVE ListsUpTo(_)
ListsUpTo(n) ==
    IF n = 0 THEN { <<>> }
    ELSE LET shorter == ListsUpTo(n - 1)
         IN  shorter \cup { Append(l, k) : l \in shorter, k \in Keywords }

KeywordLists == ListsUpTo(MaxKeywords)

KeywordAnalyses ==
    { Analysis(kw, score, NeutralScore) :
        kw \in KeywordLists, score \in {NeutralScore, PassScore} }

InitKeywords ==
    /\ flowState = initializeFlowState(SessionId, Role, TechStack, NeutralScore,
                                       DefaultTotalQuestions)
    /\ call = [op |-> "none"]
    /\ IdleInterruption
    /\ IdleSession
    /\ IdleAgent

AdvanceKeywords ==
    /\ flowState.questionsAsked < MaxKeywordRounds
    /\ \E a \in KeywordAnalyses :
          /\ call' = [op |-> "updateFlowState", flowState |-> flowState,
                      analysis |-> a]
          /\ flowState' = updateFlowState(flowState, a)
    /\ UNCHANGED <<intVars, sessVars, agentVars>>

NextKeywords == AdvanceKeywords

SpecKeywords == InitKeywords /\ [][NextKeywords]_vars

(***************************************************************************)
(* C16: updateFlowState with an analysis whose mvpKeywords are all already *)
(* present in state.mvpKeywords returns a state with the same mvpKeywords: *)
(* the same list, hence the same elements, the same size and no keyword    *)
(* occurring more often than before.                                       *)
(***************************************************************************)
C16_SubsetLeavesKeywords ==
    (/\ call.op = "updateFlowState"
     /\ \A i \in 1..Len(call.analysis.mvpKeywords) :
           Includes(call.flowState.mvpKeywords, call.analysis.mvpKeywords[i]))
    => flowState.mvpKeywords = call.flowState.mvpKeywords

\* both keywords were known, and the analysis names them again in another order
C16_Witness ==
    /\ call.op = "updateFlowState"
    /\ call.flowState.mvpKeywords = <<"hooks", "state">>
    /\ call.analysis.mvpKeywords = <<"state", "hooks">>
    /\ flowState.mvpKeywords = <<"hooks", "state">>

(***************************************************************************)
(* C17: after any sequence of updateFlowState calls from an initialized    *)
(* state, for analyses whose mvpKeywords are arbitrary lists of strings,   *)
(* FlowState.mvpKeywords contains no string more than once.                *)
(***************************************************************************)
C17_KeywordsDeduplicated ==
    \A i, j \in 1..Len(flowState.mvpKeywords) :
        flowState.mvpKeywords[i] = flowState.mvpKeywords[j] => i = j

(***************************************************************************)
(* SpecMetrics: one InterruptionHandler whose recordInterruption is called *)
(* again and again, each call with a delay of Delays between its two       *)
(* arguments; `fed` keeps the arguments of every call.                     *)
(***************************************************************************)
MaxRecords == 3     \* recordInterruption calls in one behaviour

Delays == { 0, 50, 100, 150, 200 }

\* Math.round of a non-negative quotient
MathRound(q) == (2 * q.num + q.den) \div (2 * q.den)

InitMetrics ==
    /\ now = CallStartTime
    /\ aiSpeechStartTime = NoTime
    /\ metrics = createEmptyMetrics
    /\ interruptionTimes = <<>>
    /\ calls = [onInterruption |-> 0, onSpeechStart |-> 0, onSpeechEnd |-> 0]
    /\ fed = <<>>
    /\ IdleFlow
    /\ IdleSession
    /\ IdleCall
    /\ IdleAgent

Record ==
    /\ Len(fed) < MaxRecords
    /\ \E delay \in Delays :
          LET aiStart == now
              userSpeechDetectedTime == now + delay
              h == recordInterruption(HandlerState, aiStart, userSpeechDetectedTime)
          IN  /\ now' = userSpeechDetectedTime
              /\ metrics' = h.metrics
              /\ interruptionTimes' = h.interruptionTimes
              /\ fed' = Append(fed, [aiStart |-> aiStart,
                                     detected |-> userSpeechDetectedTime])
    /\ UNCHANGED <<aiSpeechStartTime, calls, flowVars, sessVars, callVars, agentVars>>

NextMetrics == Record

SpecMetrics == InitMetrics /\ [][NextMetrics]_vars

(***************************************************************************)
(* C18: after any non-empty sequence of recordInterruption calls with      *)
(* non-negative delays, totalInterruptions is the number of calls,         *)
(* fastestInterruption the smallest delay, slowestInterruption the largest *)
(* and averageInterruptionDelay the arithmetic mean of the delays; delays  *)
(* 100, 200, 50 give fastest 50, slowest 200, total 3 and a mean of 350/3, *)
(* which rounds to 117.                                                    *)
(***************************************************************************)
C18_MetricsSummariseDelays ==
    LET n == Len(fed)
        delay == [i \in 1..n |-> fed[i].detected - fed[i].aiStart]
    IN  n >= 1 =>
          /\ metrics.totalInterruptions = n
          /\ \E i \in 1..n : metrics.fastestInterruption = delay[i]
          /\ \A i \in 1..n : metrics.fastestInterruption <= delay[i]
          /\ \E i \in 1..n : metrics.slowestInterruption = delay[i]
          /\ \A i \in 1..n : metrics.slowestInterruption >= delay[i]
          /\ metrics.averageInterruptionDelay.num * n
               = SumSeq(delay) * metrics.averageInterruptionDelay.den
          /\ delay = <<100, 200, 50>> =>
               /\ metrics.fastestInterruption = 50
               /\ metrics.slowestInterruption = 200
               /\ metrics.totalInterruptions = 3
               /\ metrics.averageInterruptionDelay = Quotient(350, 3)
               /\ MathRound(metrics.averageInterruptionDelay) = 117

\* the delays 100, 200, 50 have been recorded
C18_Witness ==
    /\ Len(fed) = 3
    /\ interruptionTimes = <<100, 200, 50>>
    /\ metrics.totalInterruptions = 3
    /\ metrics.fastestInterruption = 50

(***************************************************************************)
(* C19: initialize (initializeFlowState / POST initialize-flow) called     *)
(* with a baseDifficulty outside 1..10 fails with a validation error and   *)
(* persists no FlowState for that sessionId.  (Requests that end in the    *)
(* route's catch, status 500, are left aside: they failed for another      *)
(* reason.)                                                                *)
(***************************************************************************)
C19_OutOfRangeRejected ==
    (/\ initOutcome.status \notin {0, 500}
     /\ Has(call.body, "baseDifficulty")
     /\ call.body.baseDifficulty \notin Difficulties)
    => /\ initOutcome.status = 400
       /\ db = NoDoc

(***************************************************************************)
(* C20: generateInitialQuestions returns a sequence of exactly 3 question  *)
(* strings for every kind of generation-service output (a 3-element JSON   *)
(* array, a JSON array of another length, JSON that is not an array,       *)
(* unparseable text); on a parse failure the result is the fixed fallback  *)
(* triple.                                                                 *)
(***************************************************************************)
C20_ThreeInitialQuestions ==
    (/\ initOutcome.status = 200
     /\ initOutcome.flowState.baseDifficulty \in Difficulties) =>
        /\ Len(initOutcome.initialQuestions) = 3
        /\ call.generated.value.kind = "garbage"
              => initOutcome.initialQuestions = FallbackQuestions

(***************************************************************************)
(* C21: an interruption is recorded only on the transition from AI         *)
(* speaking to user speaking: after one assistant speech-start, a run of   *)
(* interruption-class events with no new assistant speech-start in between *)
(* records exactly one interruption, not one per event.                    *)
(***************************************************************************)
C21_OneInterruptionPerTurn ==
    (/\ Len(fed) >= 2
     /\ fed[1].message = SpeechStartAssistant
     /\ \A i \in 2..Len(fed) : fed[i].message \in InterruptionClass)
    => metrics.totalInterruptions = 1

(***************************************************************************)
(* SpecAdvance: initializeFlowState with any base difficulty in 1..10,     *)
(* then rounds of updateFlowState whose analysis is either parsed from the *)
(* generation service (its suggestedNextDifficulty any integer, in or out  *)
(* of 1..10) or the fallback analysis of analyzeUserResponse.  `call`      *)
(* keeps the state before the last round, the analysis, and the argument   *)
(* object as the call left it.                                             *)
(***************************************************************************)
MaxAdvanceRounds == 3   \* updateFlowState calls per behaviour

\* suggestedNextDifficulty values of a parsed analysis
WideSuggestions == { -12, 1, 10, 23 }

ParsedAnalyses ==
    { Analysis(<<"hooks">>, score, sugg) :
        score \in {FailScore, NeutralScore, PassScore}, sugg \in WideSuggestions }

InitAdvance ==
    /\ \E base \in Difficulties :
          flowState = initializeFlowState(SessionId, Role, TechStack, base,
                                          DefaultTotalQuestions)
    /\ call = [op |-> "none"]
    /\ IdleInterruption
    /\ IdleSession
    /\ IdleAgent

\* one round: updateFlowState(flowState, analysis)
Round(analysis, degraded) ==
    LET objects == updateFlowStateCall(flowState, analysis)
    IN  /\ call' = [op |-> "updateFlowState", before |-> flowState,
                    analysis |-> analysis, degraded |-> degraded,
                    argument |-> objects.flowState]
        /\ flowState' = objects.returned

\* a round whose analysis was parsed from the answer of the service
AdvanceParsed ==
    /\ flowState.questionsAsked < MaxAdvanceRounds
    /\ \E text \in { [kind |-> "json", value |-> a] : a \in ParsedAnalyses } :
          Round(analyzeUserResponse(Returned(text),
                                    flowState.currentDifficulty).value, FALSE)
    /\ UNCHANGED <<intVars, sessVars, agentVars>>

\* a round whose analysis is the fallback: the answer could not be parsed
AdvanceFallback ==
    /\ flowState.questionsAsked < MaxAdvanceRounds
    /\ Round(analyzeUserResponse(Returned([kind |-> "garbage"]),
                                 flowState.currentDifficulty).value, TRUE)
    /\ UNCHANGED <<intVars, sessVars, agentVars>>

NextAdvance == AdvanceParsed \/ AdvanceFallback

SpecAdvance == InitAdvance /\ [][NextAdvance]_vars

(***************************************************************************)
(* C22: updateFlowState enforces the [1,10] clamp defensively: for a state *)
(* with baseDifficulty and currentDifficulty in 1..10 and an analysis      *)
(* whose suggestedNextDifficulty is any integer, the returned              *)
(* currentDifficulty is within 1..10.                                      *)
(***************************************************************************)
C22_ClampedToScale ==
    (/\ call.op = "updateFlowState"
     /\ call.before.baseDifficulty \in Difficulties
     /\ call.before.currentDifficulty \in Difficulties)
    => flowState.currentDifficulty \in Difficulties

(***************************************************************************)
(* C23: updateFlowState is pure with respect to its input: the input       *)
(* FlowState is not modified by the call, and the returned state has the   *)
(* same sessionId, baseDifficulty, totalQuestions, role, techStack and     *)
(* questionHistory as the input.                                           *)
(***************************************************************************)
C23_InputKept ==
    call.op = "updateFlowState" =>
        /\ call.argument = call.before
        /\ \A f \in {"sessionId", "baseDifficulty", "totalQuestions", "role",
                     "techStack", "questionHistory"} :
              flowState[f] = call.before[f]

\* a round that changed every field the call may change
C23_Witness ==
    /\ call.op = "updateFlowState"
    /\ call.argument = call.before
    /\ flowState.mvpKeywords # call.before.mvpKeywords
    /\ flowState.currentDifficulty # call.before.currentDifficulty
    /\ flowState.consecutiveCorrect # call.before.consecutiveCorrect
    /\ flowState.questionsAsked = call.before.questionsAsked + 1

(***************************************************************************)
(* C24: in every state reachable from initialize, a round whose analysis   *)
(* is the fallback analysis (overallScore 5, empty keywords,               *)
(* suggestedNextDifficulty = currentDifficulty) changes only               *)
(* questionsAsked (+1) and lastAnalysis: currentDifficulty, both streak    *)
(* counters and mvpKeywords are left unchanged.                            *)
(***************************************************************************)
C24_FallbackRoundChangesNothing ==
    (call.op = "updateFlowState" /\ call.degraded) =>
        /\ flowState.questionsAsked = call.before.questionsAsked + 1
        /\ flowState.lastAnalysis = call.analysis
        /\ flowState.currentDifficulty = call.before.currentDifficulty
        /\ flowState.consecutiveCorrect = call.before.consecutiveCorrect
        /\ flowState.consecutiveIncorrect = call.before.consecutiveIncorrect
        /\ flowState.mvpKeywords = call.before.mvpKeywords
        /\ \A f \in DOMAIN flowState \ {"questionsAsked", "lastAnalysis"} :
              flowState[f] = call.before[f]

\* a fallback round in the middle of a streak, at a difficulty the blend moved
C24_Witness ==
    /\ call.op = "updateFlowState"
    /\ call.degraded
    /\ call.before.consecutiveCorrect = 2
    /\ call.before.currentDifficulty # call.before.baseDifficulty
    /\ call.before.mvpKeywords # <<>>
    /\ flowState.consecutiveCorrect = 2

(***************************************************************************)
(* C30: in every state reachable from initialize through updateFlowState   *)
(* calls, consecutiveCorrect <= 2 and consecutiveIncorrect <= 1: a streak  *)
(* counter is reset to 0 in the same call in which it reaches its          *)
(* threshold (3 correct, 2 incorrect).                                     *)
(***************************************************************************)
C30_StreaksBelowThreshold ==
    /\ flowState.consecutiveCorrect <= 2
    /\ flowState.consecutiveIncorrect <= 1
    /\ (/\ call.op = "updateFlowState"
        /\ call.before.consecutiveCorrect = 2
        /\ call.analysis.overallScore >= 7) => flowState.consecutiveCorrect = 0
    /\ (/\ call.op = "updateFlowState"
        /\ call.before.consecutiveIncorrect = 1
        /\ call.analysis.overallScore <= 4) => flowState.consecutiveIncorrect = 0

\* the third passed round in a row has just reset the counter
C30_Witness ==
    /\ call.op = "updateFlowState"
    /\ call.before.consecutiveCorrect = 2
    /\ call.analysis.overallScore >= 7
    /\ flowState.consecutiveCorrect = 0
    /\ flowState.questionsAsked = 3

(***************************************************************************)
(* C26: AdaptiveVapiHandler announces interview completion only when the   *)
(* next-question response is a success with shouldContinue = false; a      *)
(* failed response (success = false) is never announced as completion.     *)
(***************************************************************************)
C26_CompletionOnlyOnSuccess ==
    [][ client'.completionsAnnounced > client.completionsAnnounced
        => \E r \in Requests :
              /\ req[r].pc = "responded"
              /\ req'[r].pc = "done"
              /\ req[r].response.success
              /\ req[r].response.shouldContinue = "false" ]_vars

(***************************************************************************)
(* C27: the shouldContinue flag that next-question returns together with a *)
(* new question equals (questionsAsked < totalQuestions) evaluated on the  *)
(* flowState returned in the same response, for every round including the  *)
(* one that brings questionsAsked up to totalQuestions.                    *)
(***************************************************************************)
C27_FlagMatchesReturnedState ==
    (/\ call.calls >= 1
     /\ initOutcome.flowState.baseDifficulty \in Difficulties
     /\ call.last.success
     /\ call.last.nextQuestion # NoText
     /\ call.last.flowState # None)
    => (call.last.shouldContinue = "true")
          = (call.last.flowState.questionsAsked < call.last.flowState.totalQuestions)

(***************************************************************************)
(* C29: generateNextQuestion leaves the FlowState object passed in its     *)
(* request unchanged, including the contents of its questionHistory; the   *)
(* new history record and all other changes appear only in the updated     *)
(* (persisted) state.                                                      *)
(***************************************************************************)
C29_RequestStateKept ==
    \A r \in Requests :
        (Has(req[r], "flowState") /\ req[r].flowState # None)
        => req[r].flowState = req[r].stored

(***************************************************************************)
(* SpecAgent: the Agent component during one call.  Its effect subscribes  *)
(* six listeners to the voice transport; every event is handled by the     *)
(* listeners of the latest render, so the isSpeaking and isUserSpeaking a  *)
(* listener reads are the values before the event.  The effect runs again  *)
(* whenever one of the two flags changes, which starts a new closure with  *)
(* speechStartTime = null.  onMessage builds a new interruption-aware      *)
(* handler, with its own aiSpeechStartTime = null, for every message.      *)
(***************************************************************************)
MaxEvents == 3      \* transport events in one behaviour

\* transcript texts of a transcript message
Transcripts == { <<"h", "i">>, <<Blank>> }

\* the messages of the transport, a transcript message with its text
AgentMessages ==
    { [message |-> m, transcript |-> t] :
        m \in {PartialUser, FinalUser, PartialAssistant}, t \in Transcripts }
    \cup { [message |-> m, transcript |-> NoText] :
             m \in Messages \ {PartialUser, FinalUser, PartialAssistant} }

InitAgent ==
    /\ agent = [callStatus |-> "INACTIVE", isSpeaking |-> FALSE,
                isListening |-> FALSE, isUserSpeaking |-> FALSE,
                interruptionCount |-> 0, speechLatency |-> 0,
                speechStartTime |-> NoTime, messages |-> 0, sent |-> 0]
    /\ now = CallStartTime
    /\ aiSpeechStartTime = NoTime
    /\ metrics = createEmptyMetrics
    /\ interruptionTimes = <<>>
    /\ calls = [onInterruption |-> 0, onSpeechStart |-> 0, onSpeechEnd |-> 0]
    /\ fed = <<>>
    /\ IdleFlow
    /\ IdleSession
    /\ IdleCall

\* the state after the render that follows an event: the effect depends on
\* [isSpeaking, isUserSpeaking]
Rendered(before, after) ==
    IF \/ after.isSpeaking # before.isSpeaking
       \/ after.isUserSpeaking # before.isUserSpeaking
    THEN [after EXCEPT !.speechStartTime = NoTime]
    ELSE after

\* handleUserInterruption of the render `closure`, on the pending state a
handleUserInterruption(a, closure) ==
    IF closure.isSpeaking
    THEN [a EXCEPT !.isSpeaking = FALSE, !.isUserSpeaking = TRUE,
                   !.isListening = TRUE, !.sent = @ + 1]
    ELSE a

\* one event of kind `event` is handled at now + dt and leaves `after`
Handled(event, dt, after) ==
    /\ Len(fed) < MaxEvents
    /\ now' = now + dt
    /\ agent' = Rendered(agent, after)
    /\ fed' = Append(fed, event @@ [at |-> now + dt])

onCallStart ==
    /\ \E dt \in 0..MaxDt :
          Handled([event |-> "call-start"], dt,
                  [agent EXCEPT !.callStatus = "ACTIVE", !.isListening = TRUE])
    /\ UNCHANGED <<aiSpeechStartTime, metrics, interruptionTimes, calls,
                   flowVars, sessVars, callVars>>

onCallEnd ==
    /\ \E dt \in 0..MaxDt :
          Handled([event |-> "call-end"], dt,
                  [agent EXCEPT !.callStatus = "FINISHED", !.isSpeaking = FALSE,
                                !.isListening = FALSE, !.isUserSpeaking = FALSE])
    /\ UNCHANGED <<aiSpeechStartTime, metrics, interruptionTimes, calls,
                   flowVars, sessVars, callVars>>

onSpeechStart ==
    /\ \E dt \in 0..MaxDt :
          Handled([event |-> "speech-start"], dt,
                  [agent EXCEPT !.speechStartTime = now + dt,
                                !.isSpeaking = TRUE, !.isListening = FALSE])
    /\ UNCHANGED <<aiSpeechStartTime, metrics, interruptionTimes, calls,
                   flowVars, sessVars, callVars>>

onSpeechEnd ==
    /\ \E dt \in 0..MaxDt :
          Handled([event |-> "speech-end"], dt,
                  [agent EXCEPT
                     !.speechLatency = IF agent.speechStartTime # NoTime
                                       THEN now + dt - agent.speechStartTime ELSE @,
                     !.isSpeaking = FALSE, !.isListening = TRUE])
    /\ UNCHANGED <<aiSpeechStartTime, metrics, interruptionTimes, calls,
                   flowVars, sessVars, callVars>>

onError ==
    /\ \E dt \in 0..MaxDt :
          Handled([event |-> "error"], dt,
                  [agent EXCEPT !.callStatus = "FINISHED", !.isSpeaking = FALSE,
                                !.isListening = FALSE, !.isUserSpeaking = FALSE])
    /\ UNCHANGED <<aiSpeechStartTime, metrics, interruptionTimes, calls,
                   flowVars, sessVars, callVars>>

onMessage ==
    /\ \E m \in AgentMessages, dt \in 0..MaxDt :
          LET message == m.message
              a1 == IF message.type = "transcript" /\ message.transcriptType = "final"
                    THEN [agent EXCEPT
                            !.messages = @ + 1,
                            !.isUserSpeaking =
                                IF message.role = "user" THEN FALSE ELSE @]
                    ELSE agent
              a2 == IF /\ message.type = "transcript"
                       /\ message.transcriptType = "partial"
                       /\ message.role = "user"
                       /\ ~agent.isUserSpeaking
                       /\ Len(Trim(m.transcript)) > 0
                    THEN handleUserInterruption(a1, agent)
                    ELSE a1
              \* createInterruptionAwareMessageHandler(interruptionHandler, ...)
              h == messageHandler(
                     [aiSpeechStartTime |-> NoTime, metrics |-> metrics,
                      interruptionTimes |-> interruptionTimes,
                      calls |-> [onInterruption |-> 0, onSpeechStart |-> 0,
                                 onSpeechEnd |-> 0]],
                     message, now + dt)
              a3 == IF h.calls.onInterruption > 0
                    THEN [handleUserInterruption(a2, agent) EXCEPT
                            !.interruptionCount = @ + h.calls.onInterruption]
                    ELSE a2
          IN  /\ Handled([event |-> "message", message |-> message,
                          transcript |-> m.transcript], dt, a3)
              /\ metrics' = h.metrics
              /\ interruptionTimes' = h.interruptionTimes
    /\ UNCHANGED <<aiSpeechStartTime, calls, flowVars, sessVars, callVars>>

NextAgent ==
    \/ onCallStart
    \/ onCallEnd
    \/ onMessage
    \/ onSpeechStart
    \/ onSpeechEnd
    \/ onError

SpecAgent == InitAgent /\ [][NextAgent]_vars

(***************************************************************************)
(* C25: in the Agent's turn-taking state isSpeaking and isUserSpeaking are *)
(* never both set: after any sequence of transport events the state is     *)
(* exactly one of IDLE, AI_SPEAKING, USER_SPEAKING, and an assistant       *)
(* speech-start in any state leaves it in AI_SPEAKING.                     *)
(***************************************************************************)
C25_OneSpeaker ==
    /\ ~(agent.isSpeaking /\ agent.isUserSpeaking)
    /\ (fed # <<>> /\ fed[Len(fed)].event = "speech-start")
          => (agent.isSpeaking /\ ~agent.isUserSpeaking)

(***************************************************************************)
(* C28: in the Agent component the assistant speech-start time observed    *)
(* while handling one transport message is still known when later messages *)
(* are handled: an assistant speech-start message followed by a user       *)
(* partial-transcript message results in exactly one interruption recorded *)
(* in the component's InterruptionHandler metrics.                         *)
(***************************************************************************)
C28_SpeechStartRemembered ==
    (/\ Len(fed) = 2
     /\ fed[1].event = "message"
     /\ fed[1].message = SpeechStartAssistant
     /\ fed[2].event = "message"
     /\ fed[2].message = PartialUser)
    => metrics.totalInterruptions = 1

====
